---- MODULE Spec2Model ----
(***************************************************************************)
(* Adjacency-matrix operations of docs/representing_networks.ipynb:        *)
(* a zero-initialised n x n array, item assignment A[i, j] = w, the        *)
(* symmetry test (A == A.T).all() / is_symmetric(A), and symmetrize(A).   *)
(*                                                                         *)
(* Arrays are objects on a heap and the notebook's names A and A_sym are   *)
(* references to them, as in Python.  Entries are exact dyadic rationals   *)
(* <<num, den>> in lowest terms (den a power of two): the float64 values   *)
(* the notebook produces (0., 0.5, 1.) and their sums and halves are       *)
(* represented exactly, so == is structural equality.                      *)
(***************************************************************************)
EXTENDS Integers, FiniteSets, Sequences, TLC

VARIABLES n, heap, A_sym, last, ret, raised, edits, written, inRangeOnly

vars == <<n, heap, A_sym, last, ret, raised, edits, written, inRangeOnly>>

(* ------------------------------ bounds -------------------------------- *)
MaxN == 2
MaxWeight == 1
MaxEdits == 2
MaxFrameEdits == 1

(* ------------------------------ numbers ------------------------------- *)
RECURSIVE Norm(_)
Norm(q) == IF q[2] > 1 /\ q[1] % 2 = 0 THEN Norm(<<q[1] \div 2, q[2] \div 2>>) ELSE q

Num(k) == <<k, 1>>

Zero == Num(0)

One == Num(1)

HalfOne == <<1, 2>>

Add(p, q) ==
    LET d == IF p[2] >= q[2] THEN p[2] ELSE q[2]
    IN  Norm(<<p[1] * (d \div p[2]) + q[1] * (d \div q[2]), d>>)

(* Faulty variant: the division by two is left out. *)
HalveNoDivide(q) == q

Halve(q) == Norm(<<q[1], 2 * q[2]>>)

Weights == {Num(k) : k \in 0..MaxWeight}

(* ------------------------------ matrices ------------------------------ *)
Idx(k) == 0..(k - 1)

Cells(k) == Idx(k) \X Idx(k)

Matrix(k, e) == [n |-> k, entries |-> e]

make_zero_matrix(k) == Matrix(k, [p \in Cells(k) |-> Zero])

NoMatrix == make_zero_matrix(0)

AllMatrices(k) == {Matrix(k, e) : e \in [Cells(k) -> Weights]}

(* Faulty variant: A.T taken to be A. *)
TransposeIdentity(M) == M

Transpose(M) == Matrix(M.n, [p \in Cells(M.n) |-> M.entries[<<p[2], p[1]>>]])

Sub(p, q) == Add(p, <<0 - q[1], q[2]>>)

(* Faulty variant: comparison with a tolerance of 1 instead of ==. *)
ElementwiseClose(M, N) ==
    [p \in Cells(M.n) |->
        LET d == Sub(M.entries[p], N.entries[p]) IN d[1] * d[1] <= d[2] * d[2]]

ElementwiseEq(M, N) == [p \in Cells(M.n) |-> M.entries[p] = N.entries[p]]

(* Faulty variant: any() in place of all(). *)
AnyTrue(b) == \E p \in DOMAIN b : b[p]

All(b) == \A p \in DOMAIN b : b[p]

is_symmetric(M) == All(ElementwiseEq(M, Transpose(M)))

(* Faulty variant: the transpose is not added. *)
MatAddFirstOnly(M, N) == M

MatAdd(M, N) == Matrix(M.n, [p \in Cells(M.n) |-> Add(M.entries[p], N.entries[p])])

MatHalve(M) == Matrix(M.n, [p \in Cells(M.n) |-> Halve(M.entries[p])])

(* Faulty variant: only the upper triangle is averaged. *)
SymmetrizeAverageUpperOnly(M) ==
    Matrix(M.n, [p \in Cells(M.n) |->
        IF p[1] <= p[2] THEN Halve(Add(M.entries[p], M.entries[<<p[2], p[1]>>]))
        ELSE M.entries[p]])

SymmetrizeAverage(M) == MatHalve(MatAdd(M, Transpose(M)))

(* Faulty variant: the lower triangle is not overwritten. *)
SymmetrizeTriuKeepLower(M) == M

SymmetrizeTriu(M) ==
    Matrix(M.n, [p \in Cells(M.n) |->
        IF p[1] <= p[2] THEN M.entries[p] ELSE M.entries[<<p[2], p[1]>>]])

SymmetrizeTril(M) ==
    Matrix(M.n, [p \in Cells(M.n) |->
        IF p[1] >= p[2] THEN M.entries[p] ELSE M.entries[<<p[2], p[1]>>]])

Methods == {"average", "triu", "tril"}

symmetrize(M, method) ==
    CASE method = "average" -> SymmetrizeAverage(M)
      [] method = "triu"    -> SymmetrizeTriu(M)
      [] method = "tril"    -> SymmetrizeTril(M)

(* --------------------------- item assignment -------------------------- *)
OutOfBounds == 0 - 1

(* Faulty variant: every index wraps around instead of raising. *)
NormIndexModulo(i, k) ==
    IF k = 0 THEN OutOfBounds ELSE i % k

NormIndex(i, k) ==
    IF 0 <= i /\ i < k THEN i
    ELSE IF 0 - k <= i /\ i < 0 THEN i + k
    ELSE OutOfBounds

(* Faulty variant: the assignment also writes the reciprocal entry. *)
SetItemBothWays(M, i, j, w) ==
    Matrix(M.n, [p \in Cells(M.n) |->
        IF p = <<i, j>> \/ p = <<j, i>> THEN w ELSE M.entries[p]])

SetItem(M, i, j, w) == Matrix(M.n, [M.entries EXCEPT ![<<i, j>>] = w])

IndexInputs(k) == (0 - (k + 1))..k

(* ------------------------------ the heap ------------------------------ *)
ARef == "array0"

Unbound == "unbound"

Targets == {"A", "A_sym"}

Deref(name) == IF name = "A" THEN ARef ELSE A_sym

Bound(name) == Deref(name) \in DOMAIN heap

OtherName(name) == IF name = "A" THEN "A_sym" ELSE "A"

ValueOf(name) == IF Bound(name) THEN heap[Deref(name)] ELSE NoMatrix

(* Faulty variant: the result is written into the input array. *)
ResultRefInPlace(src) == src

ResultRef(src) == "array1"

(* The most recent call: its arguments, the value its array argument had   *)
(* before the call (arg), and the value the other named array had before   *)
(* the call when that array is still bound after it (other).               *)
Call(op, target, method, i, j, arg, other) ==
    [op |-> op, target |-> target, method |-> method, i |-> i, j |-> j,
     arg |-> arg, other |-> other]

NoCall == Call("none", "A", "none", 0, 0, NoMatrix, NoMatrix)

(* ------------------------------ actions ------------------------------- *)
InitVars(k, M) ==
    /\ n = k
    /\ heap = [r \in {ARef} |-> M]
    /\ A_sym = Unbound
    /\ last = NoCall
    /\ ret = FALSE
    /\ raised = "none"
    /\ edits = 0
    /\ written = M.entries
    /\ inRangeOnly = TRUE

Init == \E k \in 0..MaxN : InitVars(k, make_zero_matrix(k))

set_edge(t, i, j, w) ==
    /\ Bound(t)
    /\ LET r  == Deref(t)
           M  == heap[r]
           ii == NormIndex(i, M.n)
           jj == NormIndex(j, M.n)
           inRange == i \in Idx(M.n) /\ j \in Idx(M.n)
       IN  /\ IF ii = OutOfBounds \/ jj = OutOfBounds
              THEN /\ raised' = "IndexError"
                   /\ heap' = heap
              ELSE /\ raised' = "none"
                   /\ heap' = [heap EXCEPT ![r] = SetItem(M, ii, jj, w)]
           /\ written' = IF t = "A" /\ inRange
                         THEN [written EXCEPT ![<<i, j>>] = w]
                         ELSE written
           /\ inRangeOnly' = (inRangeOnly /\ (t = "A" => inRange))
           /\ last' = Call("set_edge", t, "none", i, j, M, ValueOf(OtherName(t)))
    /\ ret' = FALSE
    /\ UNCHANGED <<n, A_sym>>

IsSymmetric(t) ==
    /\ Bound(t)
    /\ LET M == heap[Deref(t)]
       IN  /\ ret' = is_symmetric(M)
           /\ last' = Call("is_symmetric", t, "none", 0, 0, M, ValueOf(OtherName(t)))
    /\ raised' = "none"
    /\ UNCHANGED <<n, heap, A_sym, edits, written, inRangeOnly>>

Symmetrize(t, method) ==
    /\ Bound(t)
    /\ LET src == Deref(t)
           M   == heap[src]
           r   == ResultRef(src)
           B   == symmetrize(M, method)
       IN  /\ heap' = [x \in {ARef, r} |-> IF x = r THEN B ELSE heap[x]]
           /\ A_sym' = r
           /\ last' = Call("symmetrize", t, method, 0, 0, M,
                           IF t = "A" THEN NoMatrix ELSE heap[ARef])
    /\ ret' = FALSE
    /\ raised' = "none"
    /\ UNCHANGED <<n, edits, written, inRangeOnly>>

(* Item assignments on A, starting from the zero matrix. *)
SetEdgeStep ==
    /\ edits < MaxEdits
    /\ edits' = edits + 1
    /\ \E w \in Weights : \E i \in IndexInputs(n), j \in IndexInputs(n) :
         set_edge("A", i, j, w)

IsSymmetricStep == \E t \in Targets : IsSymmetric(t)

Next == SetEdgeStep \/ IsSymmetricStep

Spec == Init /\ [][Next]_vars

(* Assignments on either array interleaved with symmetrize. *)
SetEdgeEitherStep ==
    /\ edits < MaxFrameEdits
    /\ edits' = edits + 1
    /\ \E t \in Targets, w \in Weights :
         \E i \in IndexInputs(n), j \in IndexInputs(n) : set_edge(t, i, j, w)

SymmetrizeStep == \E t \in Targets, method \in Methods : Symmetrize(t, method)

NextFrame == SetEdgeEitherStep \/ SymmetrizeStep

SpecFrame == Init /\ [][NextFrame]_vars

(* The pure functions applied to every matrix over the weights. *)
InitPure == \E k \in 0..MaxN : \E M \in AllMatrices(k) : InitVars(k, M)

NextPure == IsSymmetricStep \/ SymmetrizeStep

SpecPure == InitPure /\ [][NextPure]_vars

(* The notebook's cells: n_nodes = 5, the six assignments, the symmetry    *)
(* test and symmetrize(A), statements run in any order and any number of   *)
(* times.                                                                  *)
n_nodes == 5

NotebookEdges == {<<0, 1>>, <<1, 2>>, <<1, 4>>, <<2, 1>>, <<2, 3>>, <<4, 1>>}

InitNotebook == InitVars(n_nodes, make_zero_matrix(n_nodes))

AssignCell == \E e \in NotebookEdges : set_edge("A", e[1], e[2], One) /\ UNCHANGED edits

IsSymmetricCell == IsSymmetric("A")

SymmetrizeCell == Symmetrize("A", "average")

NextNotebook == AssignCell \/ IsSymmetricCell \/ SymmetrizeCell

SpecNotebook == InitNotebook /\ [][NextNotebook]_vars

(* ======================= properties of the operations ================== *)
IsCall(op) == last.op = op

Result == heap[A_sym]

Min(a, b) == IF a <= b THEN a ELSE b

Max(a, b) == IF a >= b THEN a ELSE b

Double(q) == Add(q, q)

(* C1: the matrix returned by symmetrize(A, "average") is symmetric for    *)
(* every square A of any size n >= 0, symmetric or not.                    *)
C1_AverageIsSymmetric ==
    (IsCall("symmetrize") /\ last.method = "average") => is_symmetric(Result)

C1_Witness ==
    /\ IsCall("symmetrize") /\ last.method = "average" /\ last.target = "A"
    /\ ~is_symmetric(last.arg)
    /\ Result # last.arg

(* C2: B = symmetrize(A, "average") has B[i][j] = B[j][i] =                *)
(* (A[i][j] + A[j][i]) / 2 for all i, j, and B[i][i] = A[i][i].            *)
C2_AverageEntries ==
    (IsCall("symmetrize") /\ last.method = "average") =>
        /\ Result.n = last.arg.n
        /\ DOMAIN Result.entries = Cells(last.arg.n)
        /\ \A i \in Idx(last.arg.n), j \in Idx(last.arg.n) :
              /\ Double(Result.entries[<<i, j>>])
                    = Add(last.arg.entries[<<i, j>>], last.arg.entries[<<j, i>>])
              /\ Result.entries[<<j, i>>] = Result.entries[<<i, j>>]
        /\ \A i \in Idx(last.arg.n) : Result.entries[<<i, i>>] = last.arg.entries[<<i, i>>]

C2_Witness ==
    /\ IsCall("symmetrize") /\ last.method = "average"
    /\ last.arg.n = 2
    /\ last.arg.entries[<<0, 1>>] = One /\ last.arg.entries[<<1, 0>>] = Zero
    /\ last.arg.entries[<<1, 1>>] = One
    /\ Result.entries[<<1, 0>>] = HalfOne

(* C3: the notebook's matrix (n_nodes = 5, the six assignments of weight   *)
(* 1) is not symmetric, and symmetrize of it is 0.5 at [0][1], [1][0],     *)
(* [2][3], [3][2], 1.0 at [1][2], [2][1], [1][4], [4][1] and 0 elsewhere.  *)
C3_AllAssigned == \A e \in NotebookEdges : written[e] = One

C3_Expected ==
    [p \in Cells(5) |->
        IF p \in {<<0, 1>>, <<1, 0>>, <<2, 3>>, <<3, 2>>} THEN HalfOne
        ELSE IF p \in {<<1, 2>>, <<2, 1>>, <<1, 4>>, <<4, 1>>} THEN One
        ELSE Zero]

C3_NotebookScenario ==
    /\ (C3_AllAssigned /\ IsCall("is_symmetric")) => ret = FALSE
    /\ (C3_AllAssigned /\ IsCall("symmetrize")) => Result.entries = C3_Expected

C3_Witness == C3_AllAssigned /\ IsCall("symmetrize") /\ Result.n = 5

(* C4: is_symmetric(A) is true exactly when A[i][j] = A[j][i] for all i, j *)
(* (exact equality), and the call changes no array.                        *)
C4_IsSymmetricExact ==
    IsCall("is_symmetric") =>
        /\ ret = (\A i \in Idx(last.arg.n), j \in Idx(last.arg.n) :
                     last.arg.entries[<<i, j>>] = last.arg.entries[<<j, i>>])
        /\ raised = "none"
        /\ ValueOf(last.target) = last.arg
        /\ ValueOf(OtherName(last.target)) = last.other

C4_Witness ==
    /\ IsCall("is_symmetric") /\ ~ret
    /\ last.arg.n = 2
    /\ last.arg.entries[<<0, 0>>] = last.arg.entries[<<1, 1>>]

(* C5: symmetrize(A, "average") equals A entry by entry when A is          *)
(* symmetric.                                                              *)
C5_AverageFixesSymmetric ==
    (/\ IsCall("symmetrize") /\ last.method = "average"
     /\ \A i \in Idx(last.arg.n), j \in Idx(last.arg.n) :
           last.arg.entries[<<i, j>>] = last.arg.entries[<<j, i>>])
    => Result = last.arg

C5_Witness ==
    /\ IsCall("symmetrize") /\ last.method = "average" /\ last.target = "A"
    /\ last.arg.n = 2
    /\ last.arg.entries[<<0, 1>>] = One /\ last.arg.entries[<<1, 0>>] = One
    /\ Result = last.arg

(* C6: symmetrize(symmetrize(A, "average"), "average") equals              *)
(* symmetrize(A, "average").                                               *)
C6_AverageIdempotent ==
    (/\ IsCall("symmetrize") /\ last.method = "average" /\ last.target = "A_sym"
     /\ last.arg = SymmetrizeAverage(heap[ARef]))
    => Result = last.arg

C6_Witness ==
    /\ IsCall("symmetrize") /\ last.method = "average" /\ last.target = "A_sym"
    /\ last.arg = SymmetrizeAverage(heap[ARef])
    /\ ~is_symmetric(heap[ARef])

(* C7: symmetrize leaves its input as it was, for every method, and its    *)
(* result is a separate array: an assignment to one of A and the result    *)
(* leaves the other as it was.                                             *)
C7_SymmetrizeDoesNotMutate ==
    /\ IsCall("symmetrize") =>
          /\ A_sym # ARef
          /\ heap[ARef] = (IF last.target = "A" THEN last.arg ELSE last.other)
    /\ (IsCall("set_edge") /\ Bound(OtherName(last.target))) =>
          ValueOf(OtherName(last.target)) = last.other

C7_Witness ==
    /\ IsCall("symmetrize") /\ last.target = "A"
    /\ ~is_symmetric(last.arg)
    /\ Result # heap[ARef]

(* C8 as stated: set_edge with i or j outside [0, n) raises IndexError and *)
(* leaves the matrix unmodified.                                           *)
C8_OutsideZeroToN_Raises ==
    (/\ IsCall("set_edge")
     /\ ~(last.i \in Idx(last.arg.n) /\ last.j \in Idx(last.arg.n)))
    => (raised = "IndexError" /\ ValueOf(last.target) = last.arg)

(* C8 amended: set_edge with i or j outside [-n, n) raises IndexError and  *)
(* leaves the matrix unmodified.                                           *)
C8_OutsideMinusNToN_Raises ==
    (/\ IsCall("set_edge")
     /\ ~(/\ last.i \in (0 - last.arg.n)..(last.arg.n - 1)
          /\ last.j \in (0 - last.arg.n)..(last.arg.n - 1)))
    => (raised = "IndexError" /\ ValueOf(last.target) = last.arg)

C8_Witness ==
    /\ IsCall("set_edge") /\ raised = "IndexError"
    /\ last.i = last.arg.n
    /\ \E p \in Cells(last.arg.n) : last.arg.entries[p] # Zero

(* C10: after in-range set_edge calls on make_zero_matrix(n) the matrix is *)
(* n x n and entry [i][j] is the weight of the latest call on (i, j), or 0 *)
(* when there was none; no call changes another entry.                     *)
C10_EntriesAreLatestWrites ==
    inRangeOnly =>
        /\ heap[ARef].n = n
        /\ DOMAIN heap[ARef].entries = Cells(n)
        /\ heap[ARef].entries = written

C10_Witness ==
    /\ inRangeOnly /\ IsCall("set_edge") /\ n = 2
    /\ last.i # last.j
    /\ last.arg.entries[<<last.j, last.i>>] = One
    /\ heap[ARef].entries[<<last.i, last.j>>] = Zero
    /\ heap[ARef].entries[<<last.j, last.i>>] = One

(* C9: symmetrize(A, "triu") has B[i][j] = B[j][i] = A[min(i,j)][max(i,j)] *)
(* and symmetrize(A, "tril") has B[i][j] = B[j][i] = A[max(i,j)][min(i,j)];*)
(* the diagonal is unchanged in both.                                      *)
C9_TriangleMirrored ==
    /\ (IsCall("symmetrize") /\ last.method = "triu") =>
          \A i \in Idx(last.arg.n), j \in Idx(last.arg.n) :
             /\ Result.entries[<<i, j>>] = last.arg.entries[<<Min(i, j), Max(i, j)>>]
             /\ Result.entries[<<j, i>>] = last.arg.entries[<<Min(i, j), Max(i, j)>>]
    /\ (IsCall("symmetrize") /\ last.method = "tril") =>
          \A i \in Idx(last.arg.n), j \in Idx(last.arg.n) :
             /\ Result.entries[<<i, j>>] = last.arg.entries[<<Max(i, j), Min(i, j)>>]
             /\ Result.entries[<<j, i>>] = last.arg.entries[<<Max(i, j), Min(i, j)>>]
    /\ (IsCall("symmetrize") /\ last.method \in {"triu", "tril"}) =>
          \A i \in Idx(last.arg.n) : Result.entries[<<i, i>>] = last.arg.entries[<<i, i>>]

C9_Witness ==
    /\ IsCall("symmetrize") /\ last.method = "triu" /\ last.target = "A"
    /\ last.arg.n = 2
    /\ last.arg.entries[<<0, 1>>] = One /\ last.arg.entries[<<1, 0>>] = Zero
    /\ Result.entries[<<1, 0>>] = One

====
